---- MODULE Spec2Model ----
(***************************************************************************)
(* A model of selection/truncated.py: the class truncated_gaussian (a      *)
(* Gaussian restricted to a union of intervals), the batch functions G and *)
(* dG, and the bracket-and-bisect solver _UMAU.                            *)
(*                                                                         *)
(* Numbers.  Reals are fixed-point: a position, a mean or a standard score *)
(* is an integer count of grid steps, Unit steps to 1.0.  PosInf, NegInf   *)
(* and NaN stand for numpy's inf, -inf and nan.  A probability or a        *)
(* density is an integer count of 1/Scale.  The level alpha is the         *)
(* rational alpha/AlphaDen.  The normal cdf and density, which the source  *)
(* takes from selection.intervals._CDF and mpmath, are tabulated on the    *)
(* grid.                                                                   *)
(***************************************************************************)
EXTENDS Integers, Sequences, FiniteSets, TLC

Unit == 4
Scale == 10000
AlphaDen == 100
PosInf == 1000
NegInf == -PosInf
NaN == 2000

IsInf(a) == a = PosInf \/ a = NegInf

Abs(n) == IF n < 0 THEN -n ELSE n

(* a - mu in floating point: an infinity absorbs the shift. *)
Shift(a, mu) == IF IsInf(a) THEN a ELSE a - mu

(* (a - mu) / sigma, rounded to the grid. *)
Z(a, mu, sigma) == IF IsInf(a) THEN a ELSE (a - mu) \div sigma

RECURSIVE SumSeq(_)
SumSeq(s) == IF s = <<>> THEN 0 ELSE s[1] + SumSeq(Tail(s))

(* s[:k] of a Python sequence. *)
Take(s, k) == SubSeq(s, 1, k)

(* -------- the normal distribution on the grid (HighPrecisionNormalOps) -- *)

(* Scale * Phi(h / Unit) for h = 0 .. 16; Phi(4) rounds to 1. *)
PhiHalf ==
  << 5000, 5987, 6915, 7734, 8413, 8944, 9332, 9599, 9772,
     9878, 9938, 9970, 9987, 9994, 9998, 9999, 10000 >>

HM == Len(PhiHalf) - 1

Phi(h) ==
  IF h >= HM THEN Scale
  ELSE IF h <= -HM THEN 0
  ELSE IF h >= 0 THEN PhiHalf[h + 1]
  ELSE Scale - PhiHalf[(-h) + 1]

(* Scale * phi(h / Unit) for h = 0 .. 17. *)
DHalf ==
  << 3989, 3867, 3521, 3011, 2420, 1826, 1295, 863, 540,
     317, 175, 91, 44, 20, 9, 4, 1, 0 >>

(* _cdf(a, b): the standard normal mass between a and b. *)
_cdf(a, b) == Phi(b) - Phi(a)

(* _dnorm(x): the standard normal density at x. *)
_dnorm(h) == IF Abs(h) >= Len(DHalf) THEN 0 ELSE DHalf[Abs(h) + 1]

(* _qnorm(q) for q in units of 1/(Scale*AlphaDen): erfinv is defined on    *)
(* [-1, 1] only and raises outside it; inside, the grid point whose cdf    *)
(* is the largest one not above q.                                         *)
_qnorm(q) ==
  IF q < 0 \/ q > Scale * AlphaDen
    THEN [exc |-> "ValueError: erfinv(x) is defined only for -1 <= x <= 1",
          val |-> NaN]
  ELSE IF q = 0 THEN [exc |-> "", val |-> NegInf]
  ELSE IF q = Scale * AlphaDen THEN [exc |-> "", val |-> PosInf]
  ELSE [exc |-> "",
        val |-> CHOOSE h \in (-HM)..HM :
                  /\ Phi(h) * AlphaDen <= q
                  /\ \A g \in (-HM)..HM : Phi(g) * AlphaDen <= q => g <= h]

(* ------------------------------ numpy helpers --------------------------- *)

RECURSIVE Insert(_, _)
Insert(x, s) ==
  IF s = <<>> THEN <<x>>
  ELSE IF x <= s[1] THEN <<x>> \o s
  ELSE <<s[1]>> \o Insert(x, Tail(s))

(* np.sort of a one-dimensional array. *)
RECURSIVE Sort(_)
Sort(s) == IF s = <<>> THEN <<>> ELSE Insert(s[1], Sort(Tail(s)))

(* np.asarray(intervals).reshape(-1): the pairs laid end to end. *)
RECURSIVE Flatten(_)
Flatten(ps) ==
  IF ps = <<>> THEN <<>> ELSE <<ps[1][1], ps[1][2]>> \o Flatten(Tail(ps))

(* array.reshape((-1, 2)): consecutive entries paired. *)
Reshape2(c) == [i \in 1..(Len(c) \div 2) |-> <<c[2 * i - 1], c[2 * i]>>]

(* array[::-1] *)
Reverse(c) == [i \in 1..Len(c) |-> c[Len(c) + 1 - i]]

(* -array *)
Negate(c) == [i \in 1..Len(c) |-> -c[i]]

(* b - a != 0 in floating point: inf - inf is nan, and nan != 0. *)
WidthNonZero(iv) == iv[1] # iv[2] \/ (IsInf(iv[1]) /\ iv[1] = iv[2])

RECURSIVE KeepNonZero(_)
KeepNonZero(ps) ==
  IF ps = <<>> THEN <<>>
  ELSE IF WidthNonZero(ps[1]) THEN <<ps[1]>> \o KeepNonZero(Tail(ps))
  ELSE KeepNonZero(Tail(ps))

(* --------------------------- truncated_gaussian ------------------------- *)

(* The property intervals of an object: its cutoff array in pairs. *)
intervals(o) == Reshape2(o.cutoff)

(* _mu_or_sigma_changed: P and D recomputed from mu, sigma, intervals. *)
_mu_or_sigma_changed(o) ==
  LET iv == intervals(o)
  IN  [o EXCEPT
        !.P = [i \in 1..Len(iv) |->
                 _cdf(Z(iv[i][1], o.mu, o.sigma), Z(iv[i][2], o.mu, o.sigma))],
        !.D = [i \in 1..Len(iv) |->
                 << _dnorm(Z(iv[i][1], o.mu, o.sigma)),
                    _dnorm(Z(iv[i][2], o.mu, o.sigma)) >>]]

(* __init__ on a flat array of cut points: the array is sorted as a whole, *)
(* paired, the zero-width pairs dropped.  hasneg is hasattr(_negated).     *)
NewFromCutoffs(flat, mu, sigma) ==
  LET sorted == Sort(flat)
      I      == KeepNonZero(Reshape2(sorted))
  IN  _mu_or_sigma_changed(
        [cutoff |-> Flatten(I), mu |-> mu, sigma |-> sigma,
         P |-> <<>>, D |-> <<>>, hasneg |-> FALSE])

(* truncated_gaussian(intervals, mu, sigma) *)
truncated_gaussian(ivs, mu, sigma) == NewFromCutoffs(Flatten(ivs), mu, sigma)

(* truncated_gaussian.twosided(thresh): the argument list it constructs    *)
(* with.                                                                   *)
twosided(thresh) == << <<NegInf, -Abs(thresh)>>, <<Abs(thresh), PosInf>> >>

(* set_mu / set_sigma *)
set_mu(o, mu) == _mu_or_sigma_changed([o EXCEPT !.mu = mu])

set_sigma(o, sigma) == _mu_or_sigma_changed([o EXCEPT !.sigma = sigma])

(* The object negated builds on its first access. *)
NewNegated(o) == NewFromCutoffs(Negate(Reverse(o.cutoff)), o.mu, o.sigma)

(* find_interval mutated: the lower bound is excluded. *)
find_interval_open(o, x) ==
  LET iv == intervals(o)
      k  == {i \in 1..Len(iv) : x > iv[i][1] /\ x < iv[i][2]}
  IN  IF Cardinality(k) > 1
        THEN [exc |-> "ValueError: intervals are not disjoint", val |-> -1]
      ELSE IF k = {}
        THEN [exc |-> "ValueError: x is not in the support", val |-> -1]
      ELSE [exc |-> "", val |-> (CHOOSE i \in k : \A j \in k : i <= j) - 1]

(* find_interval(x): the 0-based index of the interval holding x. *)
find_interval(o, x) ==
  LET iv == intervals(o)
      k  == {i \in 1..Len(iv) : x >= iv[i][1] /\ x < iv[i][2]}
  IN  IF Cardinality(k) > 1
        THEN [exc |-> "ValueError: intervals are not disjoint", val |-> -1]
      ELSE IF k = {}
        THEN [exc |-> "ValueError: x is not in the support", val |-> -1]
      ELSE [exc |-> "", val |-> (CHOOSE i \in k : \A j \in k : i <= j) - 1]

(* The numerator of CDF(x): P[:k].sum() + _cdf(a_k - mu, x - mu).          *)
CDFnum(o, x, k) ==
  SumSeq(Take(o.P, k))
    + _cdf(Shift(intervals(o)[k + 1][1], o.mu), Shift(x, o.mu))

(* CDF(x) = num / P.sum(), kept as the pair (num, den).  A zero total mass *)
(* makes the division fail.                                                *)
CDF(o, x) ==
  LET f == find_interval(o, x)
  IN  IF f.exc # "" THEN [exc |-> f.exc, num |-> 0, den |-> 1]
      ELSE IF SumSeq(o.P) = 0
        THEN [exc |-> "ZeroDivisionError", num |-> 0, den |-> 1]
      ELSE [exc |-> "", num |-> CDFnum(o, x, f.val), den |-> SumSeq(o.P)]

(* delta: D[:,0] - D[:,1] + mu * P per interval, in units of            *)
(* 1/(Scale*Unit).                                                         *)
delta(o) ==
  [i \in 1..Len(o.P) |-> Unit * (o.D[i][1] - o.D[i][2]) + o.mu * o.P[i]]

(* np.cumsum([0] + list(P)) at the 0-based index j. *)
Csum(o, j) == SumSeq(Take(o.P, j))

(* np.mean(intervals[k]) < 0: the mean of -inf and inf is nan, and         *)
(* nan < 0 is false.                                                       *)
MeanNegative(iv) ==
  IF iv[1] = NegInf THEN iv[2] # PosInf
  ELSE IF iv[2] = PosInf THEN FALSE
  ELSE iv[1] + iv[2] < 0

(* mu + v and mu - v in floating point. *)
Plus(mu, v) == IF IsInf(v) THEN v ELSE mu + v

Minus(mu, v) == IF IsInf(v) THEN -v ELSE mu - v

(* quantile(q), given T = P.sum() * q in units of 1/(Scale*AlphaDen).      *)
quantile(o, T) ==
  LET n  == Len(o.P)
      ks == {j \in 0..n : Csum(o, j) * AlphaDen < T}
  IN  IF ks = {}
        THEN [exc |-> "ValueError: max() arg is an empty sequence", val |-> NaN]
      ELSE
        LET k == CHOOSE j \in ks : \A i \in ks : i <= j
        IN  IF k >= n THEN [exc |-> "IndexError", val |-> NaN]
            ELSE
              LET pnorm_increment == T - Csum(o, k) * AlphaDen
                  iv == intervals(o)[k + 1]
                  a  == Shift(iv[1], o.mu)
                  lo == _qnorm(_cdf(NegInf, a) * AlphaDen + pnorm_increment)
                  hi == _qnorm(_cdf(a, PosInf) * AlphaDen - pnorm_increment)
              IN  IF MeanNegative(iv)
                    THEN [exc |-> lo.exc, val |-> Plus(o.mu, lo.val)]
                    ELSE [exc |-> hi.exc, val |-> Minus(o.mu, hi.val)]

(* right_endpoint(left_endpoint, alpha): nan when CDF(left_endpoint) is    *)
(* above alpha, else quantile(1 - (alpha - CDF(left_endpoint))).           *)
right_endpoint(o, left_endpoint, alpha) ==
  LET alpha1 == CDF(o, left_endpoint)
  IN  IF alpha1.exc # "" THEN [exc |-> alpha1.exc, val |-> NaN]
      ELSE IF alpha1.num * AlphaDen > alpha * alpha1.den
        THEN [exc |-> "", val |-> NaN]
      ELSE quantile(o, alpha1.den * AlphaDen
                         - (alpha * alpha1.den - alpha1.num * AlphaDen))

(* Python's min(x, y): x unless y < x, and no y is below nan. *)
PyMin(x, y) == IF x # NaN /\ y < x THEN y ELSE x

PyMax(x, y) == IF x # NaN /\ y > x THEN y ELSE x

RECURSIVE Intersections(_, _, _)
Intersections(ivs, left_endpoint, right) ==
  IF ivs = <<>> THEN <<>>
  ELSE LET intersection == << PyMax(left_endpoint, ivs[1][1]),
                              PyMin(right, ivs[1][2]) >>
           rest == Intersections(Tail(ivs), left_endpoint, right)
       IN  IF intersection[2] # NaN /\ intersection[2] > intersection[1]
             THEN <<intersection>> \o rest
             ELSE rest

(* The method G(left_endpoint, alpha), in units of                         *)
(* 1/(Scale*Unit*AlphaDen).                                                *)
G(o, left_endpoint, alpha) ==
  LET const == (AlphaDen - alpha)
                 * (Unit * SumSeq([i \in 1..Len(o.D) |-> o.D[i][1] - o.D[i][2]])
                    + o.mu * SumSeq(o.P))
      right == right_endpoint(o, left_endpoint, alpha)
      valid_intervals == Intersections(intervals(o), left_endpoint, right.val)
  IN  IF right.exc # "" THEN [exc |-> right.exc, val |-> 0]
      ELSE IF valid_intervals # <<>>
        THEN [exc |-> "",
              val |-> AlphaDen
                        * SumSeq(delta(truncated_gaussian(valid_intervals,
                                                          o.mu, o.sigma)))
                      - const]
      ELSE [exc |-> "", val |-> 0]

(* The method dG(left_endpoint, alpha): (right_endpoint - left_endpoint)   *)
(* times the density at (left_endpoint - mu) / sigma; tag tells a number   *)
(* from nan and the infinities.                                            *)
dG(o, left_endpoint, alpha) ==
  LET right == right_endpoint(o, left_endpoint, alpha)
      d     == _dnorm(Z(left_endpoint, o.mu, o.sigma))
  IN  IF right.exc # "" THEN [exc |-> right.exc, tag |-> "nan", val |-> 0]
      ELSE IF right.val = NaN \/ (IsInf(right.val) /\ d = 0)
        THEN [exc |-> "", tag |-> "nan", val |-> 0]
      ELSE IF right.val = PosInf THEN [exc |-> "", tag |-> "inf", val |-> 0]
      ELSE IF right.val = NegInf THEN [exc |-> "", tag |-> "-inf", val |-> 0]
      ELSE [exc |-> "", tag |-> "num", val |-> (right.val - left_endpoint) * d]

(* ------------------------------- the state ------------------------------ *)

(* input: the interval list the distribution d was constructed from.       *)
(* heap:  the live truncated_gaussian objects by reference: "d", the       *)
(*        object d._negated once it exists ("neg"), and the working copy   *)
(*        a running G, dG or _UMAU call holds in its local tg ("tg").      *)
(* pc:    "idle" between calls, "returned" when a call has just ended and  *)
(*        its outcome is in ret, else the position of the running call.    *)
(* frame: the local variables of the running call.                         *)
(* ret:   how the last call ended: the value returned or the exception.    *)
VARIABLES input, heap, pc, frame, ret

vars == <<input, heap, pc, frame, ret>>

(* Bounds of the explored arguments. *)
MaxMu == 1
MaxPoint == 12
MaxBatch == 2

None == 3000
Step == 2 * Unit

Inputs ==
  { twosided(Unit),
    << <<Unit, PosInf>>, <<NegInf, -Unit>> >>,
    << <<NegInf, PosInf>> >>,
    << <<0, Unit>>, <<2 * Unit, 3 * Unit>> >>,
    << <<2 * Unit, 3 * Unit>>, <<Unit, Unit>>, <<0, Unit>> >>,
    << <<-Unit, Unit>>, <<0, 2 * Unit>> >>,
    << <<-Unit, Unit>>, <<0, 2 * Unit>>, <<2, 3 * Unit>> >>,
    << <<0, 2 * Unit>>, <<Unit, Unit>> >>,
    << <<Unit, Unit>> >> }

MuArgs == {Unit * i : i \in 0..MaxMu}
SigmaArgs == {1, 2}
Points == (-MaxPoint)..MaxPoint \cup {NegInf}
AlphaArgs == {5, 25}
LeftArgs == {2, 3 * Unit}
BatchItems == {<<2, 2 + 2 * Unit>>, <<3 * Unit, 6 * Unit>>}
BatchArgs == UNION {[1..n -> BatchItems] : n \in 0..MaxBatch}
TolArgs == {1, 2, 4 * Unit}

Idle == [fn |-> "idle"]
NoRet == [op |-> "", exc |-> ""]

(* The working copy is garbage once the call that made it has ended. *)
Free(h) == [r \in DOMAIN h \ {"tg"} |-> h[r]]

Init ==
  /\ input \in Inputs
  /\ \E mu \in MuArgs, sigma \in SigmaArgs :
       heap = ("d" :> truncated_gaussian(input, mu, sigma))
  /\ pc = "idle"
  /\ frame = Idle
  /\ ret = NoRet

(* d.mu = mu *)
SetMu(mu) ==
  /\ pc = "idle"
  /\ heap' = [heap EXCEPT !["d"] = set_mu(@, mu)]
  /\ UNCHANGED <<input, pc, frame, ret>>

(* d.sigma = sigma *)
SetSigma(sigma) ==
  /\ pc = "idle"
  /\ heap' = [heap EXCEPT !["d"] = set_sigma(@, sigma)]
  /\ UNCHANGED <<input, pc, frame, ret>>

(* The heap after an access of o.negated, o = h[r]: the object is built    *)
(* when o has no _negated yet, and the stored one is returned after that.  *)
negated(h, r) ==
  IF h[r].hasneg THEN h
  ELSE ("neg" :> NewNegated(h[r])) @@ [h EXCEPT ![r].hasneg = TRUE]

(* d.negated *)
Negated ==
  /\ pc = "idle"
  /\ heap' = negated(heap, "d")
  /\ UNCHANGED <<input, pc, frame, ret>>

(* d.find_interval(x) *)
FindInterval(x) ==
  /\ pc = "idle"
  /\ LET f == find_interval(heap["d"], x)
     IN  ret' = [op |-> "find_interval", x |-> x, exc |-> f.exc, val |-> f.val]
  /\ pc' = "returned"
  /\ UNCHANGED <<input, heap, frame>>

(* d.CDF(x) *)
CallCDF(x) ==
  /\ pc = "idle"
  /\ LET c == CDF(heap["d"], x)
     IN  ret' = [op |-> "CDF", x |-> x, exc |-> c.exc,
                 num |-> c.num, den |-> c.den]
  /\ pc' = "returned"
  /\ UNCHANGED <<input, heap, frame>>

(* The caller takes the outcome of the call and goes on. *)
Resume ==
  /\ pc = "returned"
  /\ pc' = "idle"
  /\ ret' = NoRet
  /\ UNCHANGED <<input, heap, frame>>

(* -------------------------- the batch G and dG -------------------------- *)

(* The copy mutated: the caller's object is used as it is. *)
BatchAlias(h, t) == [ref |-> t, heap |-> h]

(* tg = truncated_gaussian(tg.intervals): the local name is rebound to a   *)
(* new object built from the template's intervals, mu and sigma defaulted. *)
BatchCopy(h, t) ==
  [ref |-> "tg",
   heap |-> ("tg" :> truncated_gaussian(intervals(h[t]), 0, 1)) @@ h]

(* G(left_endpoints, mus, alpha, d) or dG(...), up to the loop. *)
BatchCall(fn, items, alpha) ==
  /\ pc = "idle"
  /\ LET c == BatchCopy(heap, "d")
     IN  /\ heap' = c.heap
         /\ frame' = [fn |-> fn, tg |-> c.ref, items |-> items,
                      alpha |-> alpha, results |-> <<>>, i |-> 1]
  /\ pc' = "batch_loop"
  /\ UNCHANGED <<input, ret>>

(* One turn of the loop: tg.mu = mu; results.append(tg.G(...)). *)
BatchStep ==
  /\ pc = "batch_loop"
  /\ frame.i <= Len(frame.items)
  /\ LET left_endpoint == frame.items[frame.i][1]
         mu == frame.items[frame.i][2]
         h1 == [heap EXCEPT ![frame.tg] = set_mu(@, mu)]
         g  == G(h1[frame.tg], left_endpoint, frame.alpha)
         dg == dG(h1[frame.tg], left_endpoint, frame.alpha)
         r  == IF frame.fn = "G" THEN [exc |-> g.exc, tag |-> "num", val |-> g.val]
               ELSE dg
     IN  IF r.exc # ""
           THEN /\ heap' = Free(h1)
                /\ pc' = "returned"
                /\ frame' = Idle
                /\ ret' = [op |-> frame.fn, items |-> frame.items,
                           alpha |-> frame.alpha, exc |-> r.exc, val |-> <<>>]
           ELSE /\ heap' = h1
                /\ pc' = "batch_loop"
                /\ frame' = [frame EXCEPT
                               !.results = Append(@, [tag |-> r.tag, val |-> r.val]),
                               !.i = @ + 1]
                /\ ret' = ret
  /\ UNCHANGED input

(* return np.array(results) *)
BatchReturn ==
  /\ pc = "batch_loop"
  /\ frame.i > Len(frame.items)
  /\ heap' = Free(heap)
  /\ pc' = "returned"
  /\ frame' = Idle
  /\ ret' = [op |-> frame.fn, items |-> frame.items, alpha |-> frame.alpha,
             exc |-> "", val |-> frame.results]
  /\ UNCHANGED input

(* --------------------------------- _UMAU -------------------------------- *)

(* tg = truncated_gaussian(tg.intervals, sigma=tg.sigma) *)
UMAUCopy(h, t) ==
  [ref |-> "tg",
   heap |-> ("tg" :> truncated_gaussian(intervals(h[t]), 0, h[t].sigma)) @@ h]

(* The call ends: by return (exc = "") or by the exception exc, at the     *)
(* position at.                                                            *)
UMAUEnd(h, exc, val, at) ==
  /\ heap' = Free(h)
  /\ pc' = "returned"
  /\ frame' = Idle
  /\ ret' = [op |-> "_UMAU", exc |-> exc, val |-> val, at |-> at,
             mu_lo |-> frame.mu_lo, mu_hi |-> frame.mu_hi, tol2 |-> frame.tol2]

(* _UMAU(observed, alpha, d, mu_lo, mu_hi, tol) up to the first loop: the  *)
(* working copy, the defaults of the guesses, tg.mu = mu_lo.  tol2 is      *)
(* twice the tolerance, so that a tolerance of half a grid step is an      *)
(* argument.                                                               *)
UMAUCall(observed, alpha, lo, hi, tol2) ==
  /\ pc = "idle"
  /\ LET c == UMAUCopy(heap, "d")
         mu_lo == IF lo = None THEN observed ELSE lo
         mu_hi == IF hi = None THEN observed + Step ELSE hi
     IN  /\ heap' = [c.heap EXCEPT ![c.ref] = set_mu(@, mu_lo)]
         /\ frame' = [fn |-> "_UMAU", tg |-> c.ref, X |-> observed,
                      alpha |-> alpha, mu_lo |-> mu_lo, mu_hi |-> mu_hi,
                      mu_bar |-> None, tol2 |-> tol2]
  /\ pc' = "lo_test"
  /\ UNCHANGED <<input, ret>>

(* while tg.G(X, alpha) < 0; after the loop, tg.mu = mu_hi. *)
UMAULoTest ==
  /\ pc = "lo_test"
  /\ LET g == G(heap[frame.tg], frame.X, frame.alpha)
     IN  IF g.exc # "" THEN UMAUEnd(heap, g.exc, 0, pc)
         ELSE IF g.val < 0
           THEN /\ pc' = "lo_body"
                /\ UNCHANGED <<heap, frame, ret>>
         ELSE /\ heap' = [heap EXCEPT ![frame.tg] = set_mu(@, frame.mu_hi)]
              /\ pc' = "hi_test"
              /\ UNCHANGED <<frame, ret>>
  /\ UNCHANGED input

(* mu_lo, mu_hi = mu_lo - 2, mu_lo; tg.mu = mu_lo *)
UMAULoBody ==
  /\ pc = "lo_body"
  /\ frame' = [frame EXCEPT !.mu_lo = frame.mu_lo - Step, !.mu_hi = frame.mu_lo]
  /\ heap' = [heap EXCEPT ![frame.tg] = set_mu(@, frame.mu_lo - Step)]
  /\ pc' = "lo_test"
  /\ UNCHANGED <<input, ret>>

(* while tg.G(X, alpha) > 0 *)
UMAUHiTest ==
  /\ pc = "hi_test"
  /\ LET g == G(heap[frame.tg], frame.X, frame.alpha)
     IN  IF g.exc # "" THEN UMAUEnd(heap, g.exc, 0, pc)
         ELSE /\ pc' = IF g.val > 0 THEN "hi_body" ELSE "bis_test"
              /\ UNCHANGED <<heap, frame, ret>>
  /\ UNCHANGED input

(* mu_lo, mu_hi = mu_hi, mu_hi + 2; tg.mu = mu_ho: no name mu_ho is bound  *)
(* in the function or the module, so evaluating the right-hand side        *)
(* raises NameError before tg.mu is assigned.                              *)
UMAUHiBody ==
  /\ pc = "hi_body"
  /\ UMAUEnd(heap, "NameError: global name 'mu_ho' is not defined", 0, pc)
  /\ UNCHANGED input

(* while mu_hi - mu_lo > tol; after the loop, return mu_bar, a local that  *)
(* is bound only once the loop body has run.                               *)
UMAUBisTest ==
  /\ pc = "bis_test"
  /\ IF 2 * (frame.mu_hi - frame.mu_lo) > frame.tol2
       THEN /\ pc' = "bis_body"
            /\ UNCHANGED <<heap, frame, ret>>
     ELSE IF frame.mu_bar = None
       THEN UMAUEnd(heap, "UnboundLocalError: local variable 'mu_bar' referenced before assignment",
                    0, pc)
     ELSE UMAUEnd(heap, "", frame.mu_bar, pc)
  /\ UNCHANGED input

(* 0.5 * (mu_lo + mu_hi), rounded to a representable number. *)
Midpoint(mu_lo, mu_hi) == (mu_lo + mu_hi) \div 2

(* mu_bar = 0.5 * (mu_lo + mu_hi); tg.mu = mu_bar; the bound G's sign      *)
(* picks moves to mu_bar.                                                  *)
UMAUBisBody ==
  /\ pc = "bis_body"
  /\ LET mu_bar == Midpoint(frame.mu_lo, frame.mu_hi)
         h1 == [heap EXCEPT ![frame.tg] = set_mu(@, mu_bar)]
         g  == G(h1[frame.tg], frame.X, frame.alpha)
     IN  IF g.exc # "" THEN UMAUEnd(h1, g.exc, 0, pc)
         ELSE /\ heap' = h1
              /\ frame' = IF g.val < 0
                            THEN [frame EXCEPT !.mu_bar = mu_bar, !.mu_hi = mu_bar]
                            ELSE [frame EXCEPT !.mu_bar = mu_bar, !.mu_lo = mu_bar]
              /\ pc' = "bis_test"
              /\ ret' = ret
  /\ UNCHANGED input

(* ----------------------------- specification ---------------------------- *)

LoArgs(observed) == {None, observed + 3 * Unit}
HiArgs(observed) == {None, observed + Unit}

Next ==
  \/ \E mu \in MuArgs : SetMu(mu)
  \/ \E sigma \in SigmaArgs : SetSigma(sigma)
  \/ Negated
  \/ \E x \in Points : FindInterval(x)
  \/ \E x \in Points : CallCDF(x)
  \/ \E fn \in {"G", "dG"}, items \in BatchArgs, alpha \in AlphaArgs :
       BatchCall(fn, items, alpha)
  \/ BatchStep
  \/ BatchReturn
  \/ \E observed \in LeftArgs, alpha \in AlphaArgs, tol2 \in TolArgs :
       \E lo \in LoArgs(observed), hi \in HiArgs(observed) :
         UMAUCall(observed, alpha, lo, hi, tol2)
  \/ UMAULoTest
  \/ UMAULoBody
  \/ UMAUHiTest
  \/ UMAUHiBody
  \/ UMAUBisTest
  \/ UMAUBisBody
  \/ Resume

Spec == Init /\ [][Next]_vars

(* -------------------------------- claims -------------------------------- *)

Running ==
  {"batch_loop", "lo_test", "lo_body", "hi_test", "hi_body", "bis_test", "bis_body"}

(* The 1-based indices of the stored intervals of d that hold x. *)
Holding(x) ==
  LET iv == intervals(heap["d"])
  IN  {i \in 1..Len(iv) : iv[i][1] <= x /\ x < iv[i][2]}

(* C1: find_interval(x) returns the index of the one stored interval with  *)
(* a <= x < b when exactly one holds x, raises 'x is not in the support'   *)
(* when none does, and never returns the index of an interval that does    *)
(* not hold x.                                                             *)
C1_FindInterval ==
  (pc = "returned" /\ ret.op = "find_interval") =>
    /\ Cardinality(Holding(ret.x)) = 1 =>
         (ret.exc = "" /\ ret.val + 1 \in Holding(ret.x))
    /\ Holding(ret.x) = {} => ret.exc = "ValueError: x is not in the support"
    /\ ret.exc = "" => ret.val + 1 \in Holding(ret.x)

(* find_interval(1.0) on twosided(1.0) returned index 1: the lower bound   *)
(* of the second interval belongs to it.                                   *)
C1_Witness ==
  /\ pc = "returned" /\ ret.op = "find_interval"
  /\ input = twosided(Unit) /\ ret.x = Unit
  /\ ret.exc = "" /\ ret.val = 1

Max2(a, b) == IF a >= b THEN a ELSE b

Min2(a, b) == IF a <= b THEN a ELSE b

(* Two supplied intervals share a point. *)
Overlap(p, q) == Max2(p[1], q[1]) < Min2(p[2], q[2])

(* x lies in two of the supplied intervals. *)
InOverlap(ps, x) ==
  \E i, j \in 1..Len(ps) :
    /\ i < j
    /\ ps[i][1] <= x /\ x < ps[i][2]
    /\ ps[j][1] <= x /\ x < ps[j][2]

(* C2: a point query at a point in the overlap of two supplied intervals   *)
(* fails with the not-disjoint error (construction itself never fails in   *)
(* the code).                                                              *)
C2_OverlapReported ==
  (pc = "returned" /\ ret.op \in {"find_interval", "CDF"}
     /\ InOverlap(input, ret.x)) =>
    ret.exc = "ValueError: intervals are not disjoint"

PairwiseDisjoint(ps) ==
  \A i, j \in 1..Len(ps) : i < j => ~Overlap(ps[i], ps[j])

(* C3: the stored intervals are sorted by lower bound, pairwise disjoint   *)
(* and of positive width, and for a pairwise disjoint input they are the   *)
(* input's positive-width intervals.                                       *)
C3_StoredIntervals ==
  LET iv == intervals(heap["d"])
  IN  /\ \A i, j \in 1..Len(iv) : i < j => iv[i][1] <= iv[j][1]
      /\ PairwiseDisjoint(iv)
      /\ \A i \in 1..Len(iv) : iv[i][1] < iv[i][2]
      /\ PairwiseDisjoint(input) =>
           {iv[i] : i \in 1..Len(iv)}
             = {input[i] : i \in {j \in 1..Len(input) : input[j][1] < input[j][2]}}

(* C4: the object d.negated returns has d's current mu and sigma and the   *)
(* intervals [-b, -a) of d.                                                *)
C4_NegatedFollows ==
  pc = "idle" =>
    LET d == heap["d"]
        n == negated(heap, "d")["neg"]
    IN  /\ n.mu = d.mu
        /\ n.sigma = d.sigma
        /\ {intervals(n)[i] : i \in 1..Len(intervals(n))}
             = {<<-intervals(d)[i][2], -intervals(d)[i][1]>> :
                  i \in 1..Len(intervals(d))}

(* C5: CDF is non-decreasing on the support: a value CDF(x) returned is    *)
(* not above CDF(y) at any support point y >= x.                           *)
C5_CDFMonotone ==
  (pc = "returned" /\ ret.op = "CDF" /\ ret.exc = "") =>
    \A y \in Points :
      (y >= ret.x /\ CDF(heap["d"], y).exc = "") =>
        ret.num <= CDF(heap["d"], y).num

(* C6: no step of a batch G or dG call or of a _UMAU call, from the call   *)
(* to its return or its exception, changes the template d or the object    *)
(* it caches.                                                              *)
C6_TemplateUnchanged ==
  [][(pc \in Running \/ pc' \in Running) =>
       /\ heap'["d"] = heap["d"]
       /\ ("neg" \in DOMAIN heap) = ("neg" \in DOMAIN heap')
       /\ "neg" \in DOMAIN heap => heap'["neg"] = heap["neg"]]_vars

(* A batch G call returned two results, computed at means other than d's.  *)
C6_Witness ==
  /\ pc = "returned" /\ ret.op = "G" /\ ret.exc = ""
  /\ Len(ret.val) = 2
  /\ \A i \in 1..2 : ret.items[i][2] # heap["d"].mu

(* C7: _UMAU terminates.  The call is deterministic, so it terminates     *)
(* only if no turn of a loop ends in the state it began in: a turn that    *)
(* leaves the locals and the working copy as they were is followed by the  *)
(* same turn, for ever.                                                    *)
C7_EveryTurnProgresses ==
  [][(pc \in {"lo_body", "bis_body"} /\ pc' \in {"lo_test", "bis_test"}) =>
       <<heap', frame'>> # <<heap, frame>>]_vars

(* C8: a turn of the bracket-high loop shifts the bracket up by the step,  *)
(* sets the working copy's mean to the new mu_hi and goes back to the test *)
(* of G, raising nothing.                                                  *)
C8_HiExpansion ==
  [][pc = "hi_body" =>
       /\ pc' = "hi_test"
       /\ frame'.mu_lo = frame.mu_hi
       /\ frame'.mu_hi = frame.mu_hi + Step
       /\ heap'[frame.tg].mu = frame'.mu_hi]_vars

(* C9: once both bracket loops are over, _UMAU returns a number: the last  *)
(* midpoint, which lies in the final bracket, whose width is at most tol.  *)
C9_BisectionReturns ==
  (pc = "returned" /\ ret.op = "_UMAU" /\ ret.at \in {"bis_test", "bis_body"}) =>
    /\ ret.exc = ""
    /\ ret.mu_lo <= ret.val /\ ret.val <= ret.mu_hi
    /\ 2 * (ret.mu_hi - ret.mu_lo) <= ret.tol2

(* C10: the i-th result of a batch call is the method's value at           *)
(* left_endpoints[i] on a distribution with d's intervals, d's sigma and   *)
(* the mean mus[i].                                                        *)
C10_BatchMatchesMethod ==
  (pc = "returned" /\ ret.op \in {"G", "dG"} /\ ret.exc = "") =>
    \A i \in 1..Len(ret.items) :
      LET o  == truncated_gaussian(intervals(heap["d"]), ret.items[i][2],
                                   heap["d"].sigma)
          g  == G(o, ret.items[i][1], ret.alpha)
          dg == dG(o, ret.items[i][1], ret.alpha)
      IN  IF ret.op = "G"
            THEN g.exc = "" /\ ret.val[i] = [tag |-> "num", val |-> g.val]
            ELSE dg.exc = "" /\ ret.val[i] = [tag |-> dg.tag, val |-> dg.val]

====
